---- MODULE Spec2Model ----
(***************************************************************************)
(* LCV allocation service (src/main.py).                                   *)
(*                                                                         *)
(* Two specifications share the definitions below:                         *)
(*   SpecAlloc  the function allocate_lcvs_to_routes_api, called (and      *)
(*              called again) on arguments drawn from bounded sets;        *)
(*   Spec       the request handler create_allocation over a dataset       *)
(*              loaded (or not) by load_data.                              *)
(*                                                                         *)
(* A DataFrame is the sequence of its rows, in index order.  A dict is the *)
(* sequence of its items in insertion order, with distinct keys.  An       *)
(* optional value (None or a value) is a sequence of length 0 or 1.        *)
(***************************************************************************)
EXTENDS Integers, Sequences, FiniteSets

VARIABLES
    df,               \* module global df: <<>> is None, <<rows>> a loaded frame
    pc,               \* "idle" before the request, "done" after its response
    request,          \* <<>> or <<the AllocationRequest being served>>
    response,         \* <<>> or <<[status, detail, body]>>
    log,              \* what the handler has done: "filter", "allocate"
    data,             \* argument object `data` of the latest call
    request_ids,      \* argument object `request_ids` of the latest call
    lcv_assignments,  \* argument object `lcv_assignments` of the latest call
    result,           \* list returned by the latest call
    calls,            \* number of calls of allocate_lcvs_to_routes_api so far
    quicksort         \* the build's sort: <<>> or <<[column, order]>> of the last sort

vars == <<df, pc, request, response, log, data, request_ids, lcv_assignments,
          result, calls, quicksort>>

(***************************************************************************)
(* Bounds of the model.                                                    *)
(***************************************************************************)
MaxRoutes == 2
MaxLcvs == 2
MaxRecords == 2
MaxCalls == 2

(***************************************************************************)
(* Input values.  U+2013 (en dash) is written <U+2013>: the two stage      *)
(* names that carry it differ from their ASCII-hyphen spellings.           *)
(***************************************************************************)
Stage3 == "Stage 3 (Filled <U+2013> Waiting Area/Moving to DBS)"
Stage2 == "Stage 2 (Filling <U+2013> Safe Zone)"
Stage1 == "Stage 1 (Empty - Waiting Area)"
Stage3Hyphen == "Stage 3 (Filled - Waiting Area/Moving to DBS)"
StageNames == {Stage3, Stage2, Stage1, "Stage 9", Stage3Hyphen}

LcvIds == {"LCV1", "LCV2", "Pending"}
RequestIdValues == {"REQ1", "REQ2"}
RequestIdLists == {<<>>, <<"REQ1">>, <<"REQ2", "REQ1">>}
Durations == {30, 45}
Depots == {"MGS1", "MGS2"}
Timestamps == {<<"2024-07-16", "08:15:00">>, <<"2024-07-17", "00:00:00">>}
ParseableDateStrings == {"2024-07-16", "2024-07-17 09:30:00"}
DateStrings == ParseableDateStrings \cup {"16th of Julember"}
RouteIdAt(k) == <<"RT1", "RT2", "RT3", "RT4", "RT5", "RT6">>[k]

Range(s) == {s[i] : i \in 1..Len(s)}
SeqsUpTo(S, n) == UNION {[1..k -> S] : k \in 0..n}
Injective(s) == \A i, j \in 1..Len(s) : s[i] = s[j] => i = j

\* Raw spreadsheet rows: row k of the sheet, its columns drawn from S.
SheetRow(k, rid, dur, mgs, ts) ==
    [Request_id |-> rid, Route_id |-> RouteIdAt(k), DBS |-> "DBS1",
     Distance |-> 10 * k, Duration |-> dur, MGS |-> mgs, create_date |-> ts]

Sheets(n, mgss, tss) ==
    UNION {{[k \in 1..m |-> SheetRow(k, c[k][1], c[k][2], c[k][3], c[k][4])] :
              c \in [1..m -> RequestIdValues \X Durations \X mgss \X tss]} :
           m \in 0..n}

\* Dicts with at most n items: distinct keys in every insertion order.
LcvDicts(n) ==
    {[i \in 1..Len(ks) |-> [lcv |-> ks[i], stage |-> st[i]]] :
        <<ks, st>> \in {p \in SeqsUpTo(LcvIds, n) \X SeqsUpTo(StageNames, n) :
                          Len(p[1]) = Len(p[2]) /\ Injective(p[1])}}

(***************************************************************************)
(* load_data                                                               *)
(***************************************************************************)
\* df['create_date'].dt.date: the calendar-date component of a timestamp
dt_date(ts) == ts[1]

\* lines 18-21: the frame read from the sheet, with the date_only column added
load_data(sheet) ==
    [k \in 1..Len(sheet) |->
        [Request_id |-> sheet[k].Request_id, Route_id |-> sheet[k].Route_id,
         DBS |-> sheet[k].DBS, Distance |-> sheet[k].Distance,
         Duration |-> sheet[k].Duration, MGS |-> sheet[k].MGS,
         create_date |-> sheet[k].create_date,
         date_only |-> dt_date(sheet[k].create_date)]]

(***************************************************************************)
(* allocate_lcvs_to_routes_api                                             *)
(***************************************************************************)
\* data[data['Request_id'].isin(request_ids)]: a new frame, rows in order
selected_data_of(d, ids) ==
    SelectSeq(d, LAMBDA row : row.Request_id \in Range(ids))

\* the table with its ranks the wrong way round
stage_priority_reversed(stage) ==
    CASE stage = <<Stage3>> -> 3
      [] stage = <<Stage2>> -> 2
      [] stage = <<Stage1>> -> 1
      [] OTHER -> 99

\* stage_priority.get(stage, 99); stage is <<>> when the dict has no such key
stage_priority_get(stage) ==
    CASE stage = <<Stage3>> -> 1
      [] stage = <<Stage2>> -> 2
      [] stage = <<Stage1>> -> 3
      [] OTHER -> 99

\* lcv_assignments.get(lcv): <<stage>>, or <<>> (None) for a missing key
dict_get(d, lcv) ==
    IF \E i \in 1..Len(d) : d[i].lcv = lcv
    THEN <<d[CHOOSE i \in 1..Len(d) : d[i].lcv = lcv].stage>>
    ELSE <<>>

\* list(lcv_assignments.keys()): a new list of the keys in insertion order
dict_keys(d) == [i \in 1..Len(d) |-> d[i].lcv]

\* the sort key of line 66
priority_key(d, lcv) == stage_priority_get(dict_get(d, lcv))

\* an insertion that puts x before the elements of equal key
unstable_insert(s, x, d) ==
    LET k == Cardinality({i \in 1..Len(s) :
                            priority_key(d, s[i]) < priority_key(d, x)})
    IN  SubSeq(s, 1, k) \o <<x>> \o SubSeq(s, k + 1, Len(s))

\* one insertion of Python's stable sort: x goes after every element whose
\* key is not greater than its own
stable_insert(s, x, d) ==
    LET k == Cardinality({i \in 1..Len(s) :
                            priority_key(d, s[i]) <= priority_key(d, x)})
    IN  SubSeq(s, 1, k) \o <<x>> \o SubSeq(s, k + 1, Len(s))

\* sorted(selected_lcvs, key=...): a new list, stable, ascending by key
RECURSIVE sorted(_, _)
sorted(s, d) ==
    IF s = <<>> THEN <<>>
    ELSE stable_insert(sorted(SubSeq(s, 1, Len(s) - 1), d), s[Len(s)], d)

\* the orders of an ascending sort (ascending=False left out)
nargsort_asc(column) ==
    {p \in [1..Len(column) -> 1..Len(column)] :
        /\ \A i, j \in 1..Len(column) : p[i] = p[j] => i = j
        /\ \A i, j \in 1..Len(column) : i < j => column[p[i]] <= column[p[j]]}

\* The orders sort_values(by='Duration', ascending=False) can return under
\* its default kind='quicksort', which is not a stable sort: every
\* permutation of the rows that puts the column in non-increasing order.
nargsort_desc(column) ==
    {p \in [1..Len(column) -> 1..Len(column)] :
        /\ Injective(p)
        /\ \A i, j \in 1..Len(column) : i < j => column[p[i]] >= column[p[j]]}

duration_column(frame) == [i \in 1..Len(frame) |-> frame[i].Duration]

\* the frame left in dataset order
sort_values_unsorted(frame, order) == frame

\* sort_values: a new frame holding the rows in the order the sort returned
sort_values(frame, order) == [i \in 1..Len(frame) |-> frame[order[i]]]

\* the loop body with the append inside the if: a route without a vehicle
\* is left out
loop_body_append_in_if(st, route) ==
    IF st.lcvs_to_allocate # <<>>
    THEN [lcvs_to_allocate |-> Tail(st.lcvs_to_allocate),
          allocations |-> Append(st.allocations,
              [request_id |-> route.Request_id, Route_id |-> route.Route_id,
               DBS |-> route.DBS, Distance |-> route.Distance,
               Duration |-> route.Duration,
               Allocated_LCV |-> Head(st.lcvs_to_allocate)]),
          lcv_assignments |-> st.lcv_assignments]
    ELSE st

\* the loop body popping the vehicle out of the caller's dict as well
loop_body_pops_dict(st, route) ==
    LET allocation_info ==
            [request_id |-> route.Request_id, Route_id |-> route.Route_id,
             DBS |-> route.DBS, Distance |-> route.Distance,
             Duration |-> route.Duration, Allocated_LCV |-> "Pending"]
    IN  IF st.lcvs_to_allocate # <<>>
        THEN [lcvs_to_allocate |-> Tail(st.lcvs_to_allocate),
              allocations |-> Append(st.allocations,
                  [allocation_info EXCEPT !.Allocated_LCV = Head(st.lcvs_to_allocate)]),
              lcv_assignments |-> SelectSeq(st.lcv_assignments,
                  LAMBDA item : item.lcv # Head(st.lcvs_to_allocate))]
        ELSE [lcvs_to_allocate |-> st.lcvs_to_allocate,
              allocations |-> Append(st.allocations, allocation_info),
              lcv_assignments |-> st.lcv_assignments]

\* lines 75-86: one iteration of the loop over the sorted routes.  st holds
\* the objects the loop can reach: the list lcvs_to_allocate (the same object
\* as prioritized_lcvs), the list allocations, and the caller's dict.
loop_body(st, route) ==
    LET allocation_info ==
            [request_id |-> route.Request_id, Route_id |-> route.Route_id,
             DBS |-> route.DBS, Distance |-> route.Distance,
             Duration |-> route.Duration, Allocated_LCV |-> "Pending"]
    IN  IF st.lcvs_to_allocate # <<>>
        THEN [lcvs_to_allocate |-> Tail(st.lcvs_to_allocate),
              allocations |-> Append(st.allocations,
                  [allocation_info EXCEPT !.Allocated_LCV = Head(st.lcvs_to_allocate)]),
              lcv_assignments |-> st.lcv_assignments]
        ELSE [lcvs_to_allocate |-> st.lcvs_to_allocate,
              allocations |-> Append(st.allocations, allocation_info),
              lcv_assignments |-> st.lcv_assignments]

\* line 74: for _, route in sorted_routes_desc.iterrows()
RECURSIVE iterrows(_, _)
iterrows(routes, st) ==
    IF routes = <<>> THEN st
    ELSE iterrows(Tail(routes), loop_body(st, Head(routes)))

\* The call: what it returns (ret) and the argument objects as it leaves
\* them.  order is the order the sort of line 70 returned.
allocate_lcvs_to_routes_api(d, ids, lcvs, order) ==
    LET selected_data == selected_data_of(d, ids)
    IN  IF selected_data = <<>>
        THEN [ret |-> <<>>, data |-> d, request_ids |-> ids, lcv_assignments |-> lcvs]
        ELSE LET selected_lcvs == dict_keys(lcvs)
                 prioritized_lcvs == sorted(selected_lcvs, lcvs)
                 sorted_routes_desc == sort_values(selected_data, order)
                 end == iterrows(sorted_routes_desc,
                                 [lcvs_to_allocate |-> prioritized_lcvs,
                                  allocations |-> <<>>,
                                  lcv_assignments |-> lcvs])
             IN  [ret |-> end.allocations, data |-> d, request_ids |-> ids,
                  lcv_assignments |-> end.lcv_assignments]

\* The sort is a deterministic function of its input whose treatment of
\* ties is not specified: the same column sorts the same way again.
sort_outcomes(column) ==
    IF quicksort # <<>> /\ quicksort[1].column = column
    THEN {quicksort[1].order}
    ELSE nargsort_desc(column)

(***************************************************************************)
(* create_allocation                                                       *)
(***************************************************************************)
\* a parse that never raises
to_datetime_date_lenient(s) == <<s>>

\* pd.to_datetime(s).date(): <<date>>, or <<>> when it raises ValueError.
\* A time of day in the string is parsed and then dropped by .date().
to_datetime_date(s) ==
    CASE s = "2024-07-16" -> <<"2024-07-16">>
      [] s = "2024-07-17 09:30:00" -> <<"2024-07-17">>
      [] OTHER -> <<>>

\* the filter without its MGS conjunct
filter_date_only(frame, request_date, mgs) ==
    SelectSeq(frame, LAMBDA row : row.date_only = request_date)

\* line 106: df[(df['date_only'] == request_date) & (df['MGS'] == selected_mgs)]
filter_date_mgs(frame, request_date, mgs) ==
    SelectSeq(frame, LAMBDA row : row.date_only = request_date /\ row.MGS = mgs)

HTTPException(status_code, detail) ==
    <<[status |-> status_code, detail |-> detail, body |-> <<>>]>>

\* Request bodies: every date string, depot and id list, with the empty
\* vehicle map, a one-vehicle map and the two-vehicle map of Scenario 1.
RequestLcvDicts ==
    {<<>>,
     <<[lcv |-> "Pending", stage |-> "Stage 9"]>>,
     <<[lcv |-> "LCV1", stage |-> Stage1], [lcv |-> "LCV2", stage |-> Stage3]>>}

Requests ==
    [selected_date : DateStrings, selected_mgs : Depots,
     selected_request_ids : RequestIdLists,
     lcv_stage_assignments : RequestLcvDicts]

\* lines 92-121, one request from its arrival to its response
create_allocation(req) ==
    /\ pc = "idle"
    /\ pc' = "done"
    /\ request' = <<req>>
    /\ UNCHANGED df
    /\ IF df = <<>>
       THEN /\ response' = HTTPException(500, "Data could not be loaded. API is non-operational.")
            /\ UNCHANGED <<log, data, request_ids, lcv_assignments, result, calls, quicksort>>
       ELSE IF to_datetime_date(req.selected_date) = <<>>
       THEN /\ response' = HTTPException(400, "Invalid date format. Please use YYYY-MM-DD.")
            /\ UNCHANGED <<log, data, request_ids, lcv_assignments, result, calls, quicksort>>
       ELSE LET request_date == to_datetime_date(req.selected_date)[1]
                filtered_df == filter_date_mgs(df[1], request_date, req.selected_mgs)
            IN  IF filtered_df = <<>>
                THEN /\ response' = HTTPException(404, "No data found for the selected date and MGS.")
                     /\ log' = log \o <<"filter">>
                     /\ UNCHANGED <<data, request_ids, lcv_assignments, result, calls, quicksort>>
                ELSE LET column == duration_column(
                             selected_data_of(filtered_df, req.selected_request_ids))
                     IN  \E order \in sort_outcomes(column) :
                           LET call == allocate_lcvs_to_routes_api(
                                           filtered_df, req.selected_request_ids,
                                           req.lcv_stage_assignments, order)
                           IN  /\ log' = log \o <<"filter", "allocate">>
                               /\ data' = call.data
                               /\ request_ids' = call.request_ids
                               /\ lcv_assignments' = call.lcv_assignments
                               /\ result' = call.ret
                               /\ calls' = calls + 1
                               /\ quicksort' = IF column = <<>> THEN quicksort
                                               ELSE <<[column |-> column, order |-> order]>>
                               /\ response' =
                                    IF call.ret = <<>>
                                    THEN HTTPException(404, "None of the selected request_ids were found in the dataset for the given date and MGS.")
                                    ELSE <<[status |-> 200, detail |-> "", body |-> call.ret]>>

(***************************************************************************)
(* Spec: the handler                                                       *)
(***************************************************************************)
Init ==
    /\ df \in {<<>>} \cup {<<load_data(s)>> : s \in Sheets(MaxRecords, Depots, Timestamps)}
    /\ pc = "idle"
    /\ request = <<>>
    /\ response = <<>>
    /\ log = <<>>
    /\ data = <<>>
    /\ request_ids = <<>>
    /\ lcv_assignments = <<>>
    /\ result = <<>>
    /\ calls = 0
    /\ quicksort = <<>>

Next == \E req \in Requests : create_allocation(req)

Spec == Init /\ [][Next]_vars

(***************************************************************************)
(* SpecAlloc: the function, called on the same argument objects            *)
(***************************************************************************)
Call ==
    /\ calls < MaxCalls
    /\ LET column == duration_column(selected_data_of(data, request_ids))
       IN  \E order \in sort_outcomes(column) :
             LET call == allocate_lcvs_to_routes_api(data, request_ids,
                                                     lcv_assignments, order)
             IN  /\ data' = call.data
                 /\ request_ids' = call.request_ids
                 /\ lcv_assignments' = call.lcv_assignments
                 /\ result' = call.ret
                 /\ calls' = calls + 1
                 /\ quicksort' = IF column = <<>> THEN quicksort
                                 ELSE <<[column |-> column, order |-> order]>>
    /\ UNCHANGED <<df, pc, request, response, log>>

InitAlloc ==
    /\ df = <<>>
    /\ pc = "idle"
    /\ request = <<>>
    /\ response = <<>>
    /\ log = <<>>
    /\ data \in {load_data(s) :
                   s \in Sheets(MaxRoutes, {"MGS1"}, {<<"2024-07-16", "08:15:00">>})}
    /\ request_ids \in RequestIdLists
    /\ lcv_assignments \in LcvDicts(MaxLcvs)
    /\ result = <<>>
    /\ calls = 0
    /\ quicksort = <<>>

NextAlloc == Call

SpecAlloc == InitAlloc /\ [][NextAlloc]_vars

(***************************************************************************)
(* Properties of allocate_lcvs_to_routes_api (checked under SpecAlloc)     *)
(***************************************************************************)
Returned == calls >= 1

\* the rows of `data` whose Request_id is among `request_ids`, by position
SelectedRows == {k \in 1..Len(data) : \E i \in 1..Len(request_ids) :
                                         request_ids[i] = data[k].Request_id}

\* the route columns an output entry carries
RouteFieldsOfRow(row) ==
    <<row.Request_id, row.Route_id, row.DBS, row.Distance, row.Duration>>
RouteFieldsOfEntry(e) ==
    <<e.request_id, e.Route_id, e.DBS, e.Distance, e.Duration>>

\* the rank table of the specification
RankOfStage(stage) ==
    IF stage = Stage3 THEN 1
    ELSE IF stage = Stage2 THEN 2
    ELSE IF stage = Stage1 THEN 3
    ELSE 99
RankAt(i) == RankOfStage(lcv_assignments[i].stage)

EntriesOf(lcv) == {i \in 1..Len(result) : result[i].Allocated_LCV = lcv}
FirstEntryOf(lcv) == CHOOSE i \in EntriesOf(lcv) : \A j \in EntriesOf(lcv) : i <= j

\* C1: the call returns exactly one entry per selected row of `data`
\* (duplicate Request_ids each counted): the output is as long as the
\* selection, and every selected row's fields occur in the output as often
\* as they occur among the selected rows; nothing else occurs in it.
C1_OneEntryPerSelectedRow ==
    Returned =>
        /\ Len(result) = Cardinality(SelectedRows)
        /\ \A k \in SelectedRows :
              Cardinality({i \in 1..Len(result) :
                             RouteFieldsOfEntry(result[i]) = RouteFieldsOfRow(data[k])})
              = Cardinality({l \in SelectedRows :
                               RouteFieldsOfRow(data[l]) = RouteFieldsOfRow(data[k])})
        /\ \A i \in 1..Len(result) : \E k \in SelectedRows :
              RouteFieldsOfEntry(result[i]) = RouteFieldsOfRow(data[k])
        /\ (SelectedRows = {} => result = <<>>)

\* two selected rows share a Request_id, one is assigned and one is Pending
C1_Witness ==
    /\ Returned
    /\ Len(result) = 2
    /\ result[1].request_id = result[2].request_id
    /\ Len(lcv_assignments) = 1
    /\ result[1].Allocated_LCV = "LCV1"
    /\ result[2].Allocated_LCV = "Pending"

\* C2: no vehicle identifier of lcv_assignments is in the Allocated_LCV
\* field of more than one output entry.
C2_NoVehicleTwice ==
    Returned =>
        \A v \in 1..Len(lcv_assignments) :
            Cardinality(EntriesOf(lcv_assignments[v].lcv)) <= 1

\* Apart from a vehicle whose identifier is the string "Pending", no
\* vehicle identifier is in more than one entry.
NoOtherVehicleTwice ==
    Returned =>
        \A v \in 1..Len(lcv_assignments) :
            lcv_assignments[v].lcv # "Pending" =>
                Cardinality(EntriesOf(lcv_assignments[v].lcv)) <= 1

\* C3: a vehicle of strictly lower rank number than another is assigned
\* at an earlier output position when both are assigned, and is assigned
\* whenever the other is.
C3_PriorityOrder ==
    Returned /\ result # <<>> =>
        \A a, b \in 1..Len(lcv_assignments) :
            RankAt(a) < RankAt(b) =>
                LET A == lcv_assignments[a].lcv
                    B == lcv_assignments[b].lcv
                IN  /\ (EntriesOf(B) # {} => EntriesOf(A) # {})
                    /\ (EntriesOf(A) # {} /\ EntriesOf(B) # {}
                          => FirstEntryOf(A) < FirstEntryOf(B))

\* the dict lists the lower-priority vehicle first and both are assigned
C3_Witness ==
    /\ Returned
    /\ Len(result) = 2
    /\ Len(lcv_assignments) = 2
    /\ RankAt(1) > RankAt(2)
    /\ result[1].Allocated_LCV = lcv_assignments[2].lcv
    /\ result[2].Allocated_LCV = lcv_assignments[1].lcv

\* the dict holds more vehicles than routes: the higher-priority one is used
C3_WitnessLeftOver ==
    /\ Returned
    /\ Len(result) = 1
    /\ Len(lcv_assignments) = 2
    /\ RankAt(1) > RankAt(2)
    /\ result[1].Allocated_LCV = lcv_assignments[2].lcv

\* C4: the Duration values of the output are non-increasing; its first
\* entry is a longest selected route and carries a vehicle of the least
\* rank number, when there is any vehicle.
C4_DurationNonIncreasing ==
    Returned =>
        /\ \A i \in 1..(Len(result) - 1) : result[i].Duration >= result[i + 1].Duration
        /\ result # <<>> =>
              /\ \A k \in SelectedRows : result[1].Duration >= data[k].Duration
              /\ lcv_assignments # <<>> =>
                    \E v \in 1..Len(lcv_assignments) :
                        /\ result[1].Allocated_LCV = lcv_assignments[v].lcv
                        /\ \A w \in 1..Len(lcv_assignments) : RankAt(v) <= RankAt(w)

\* the dataset lists the shorter route first; the output lists it last
C4_Witness ==
    /\ Returned
    /\ Len(data) = 2
    /\ data[1].Duration < data[2].Duration
    /\ Len(result) = 2
    /\ result[1].Route_id = data[2].Route_id
    /\ result[2].Route_id = data[1].Route_id
    /\ lcv_assignments # <<>>

\* C5: with fewer vehicles than selected routes, the entries whose
\* Allocated_LCV is "Pending" are exactly the last (routes - vehicles)
\* entries; with an empty vehicle map every entry is "Pending".
C5_PendingFill ==
    Returned /\ Len(lcv_assignments) < Cardinality(SelectedRows) =>
        EntriesOf("Pending") = (Len(lcv_assignments) + 1)..Len(result)

\* Whatever the identifiers, the entries past the last vehicle are
\* "Pending", and the entries before them carry the dict's keys.
PendingAfterLastVehicle ==
    Returned /\ result # <<>> =>
        /\ \A i \in 1..Len(result) :
              i > Len(lcv_assignments) => result[i].Allocated_LCV = "Pending"
        /\ \A i \in 1..Len(result) :
              i <= Len(lcv_assignments) =>
                  \E v \in 1..Len(lcv_assignments) :
                      result[i].Allocated_LCV = lcv_assignments[v].lcv

\* C6: for k up to min(routes, vehicles) the k-th output entry carries the
\* k-th vehicle of the stable rank-ascending ordering of the dict's keys,
\* an unrecognized stage name ranking 99.
StableRankOrders ==
    {p \in [1..Len(lcv_assignments) -> 1..Len(lcv_assignments)] :
        /\ \A i, j \in 1..Len(lcv_assignments) : p[i] = p[j] => i = j
        /\ \A i, j \in 1..Len(lcv_assignments) :
              i < j => \/ RankAt(p[i]) < RankAt(p[j])
                       \/ RankAt(p[i]) = RankAt(p[j]) /\ p[i] < p[j]}

C6_StableVehicleOrder ==
    Returned /\ result # <<>> =>
        \A p \in StableRankOrders :
            \A k \in 1..Len(result) :
                k <= Len(lcv_assignments) =>
                    result[k].Allocated_LCV = lcv_assignments[p[k]].lcv

\* two vehicles with different unrecognized stage names, both assigned in
\* the order of the dict
C6_Witness ==
    /\ Returned
    /\ Len(result) = 2
    /\ Len(lcv_assignments) = 2
    /\ lcv_assignments[1].stage = "Stage 9"
    /\ lcv_assignments[2].stage = Stage3Hyphen
    /\ result[1].Allocated_LCV = lcv_assignments[1].lcv
    /\ result[2].Allocated_LCV = lcv_assignments[2].lcv

\* C9: a call leaves the objects data, request_ids and lcv_assignments as
\* it found them, and a call made after one has returned returns the same.
C9_InputsNotMutated ==
    [][/\ data' = data
       /\ request_ids' = request_ids
       /\ lcv_assignments' = lcv_assignments
       /\ (Returned => result' = result)]_vars

\* a second call has returned, every vehicle was popped off the queue, and
\* the two routes tie on Duration
C9_Witness ==
    /\ calls = 2
    /\ Len(lcv_assignments) = 2
    /\ Len(result) = 2
    /\ result[1].Duration = result[2].Duration
    /\ result[1].Allocated_LCV # "Pending"
    /\ result[2].Allocated_LCV # "Pending"

\* the position in `data` of the row an output entry was made from
RowOfEntry(i) == CHOOSE k \in 1..Len(data) : data[k].Route_id = result[i].Route_id

\* C10: two selected routes of equal Duration are in the output in the
\* order they have in the dataset.
C10_TiesKeepDatasetOrder ==
    Returned =>
        \A i, j \in 1..Len(result) :
            i < j /\ result[i].Duration = result[j].Duration
                => RowOfEntry(i) < RowOfEntry(j)

\* C10 as amended: of two selected routes of different Duration the longer
\* one is earlier in the output, and every output entry comes from a row
\* of its own; the order of routes of equal Duration is left to the sort.
C10_LongerRouteFirst ==
    Returned =>
        /\ \A k, l \in SelectedRows :
              data[k].Duration > data[l].Duration =>
                  \E i, j \in 1..Len(result) :
                      /\ i < j
                      /\ RowOfEntry(i) = k
                      /\ RowOfEntry(j) = l
        /\ \A i, j \in 1..Len(result) : i # j => RowOfEntry(i) # RowOfEntry(j)

\* two routes tie on Duration and the output lists them in reverse
C10_Witness ==
    /\ Returned
    /\ Len(result) = 2
    /\ result[1].Duration = result[2].Duration
    /\ RowOfEntry(1) > RowOfEntry(2)
    /\ result[1].Allocated_LCV = "LCV1"
    /\ result[2].Allocated_LCV = "Pending"

(***************************************************************************)
(* Properties of create_allocation (checked under Spec)                    *)
(***************************************************************************)
NoDataDetail == "No data found for the selected date and MGS."
NoneSelectedDetail ==
    "None of the selected request_ids were found in the dataset for the given date and MGS."

\* the calendar date a parseable request date string names
CalendarDateOf(s) == IF s = "2024-07-16" THEN "2024-07-16" ELSE "2024-07-17"

\* the loaded records that match the request's date and depot, by position
ScopeRows ==
    {k \in 1..Len(df[1]) :
        /\ df[1][k].create_date[1] = CalendarDateOf(request[1].selected_date)
        /\ df[1][k].MGS = request[1].selected_mgs}

ScopeSelectedRows ==
    {k \in ScopeRows : \E i \in 1..Len(request[1].selected_request_ids) :
                          request[1].selected_request_ids[i] = df[1][k].Request_id}

\* C7: with the dataset loaded and a parseable date, the response is
\* 404 "no data" iff no record matches date and depot, 404 "none selected"
\* iff some record matches them but none of those has a selected
\* Request_id, and otherwise a success with one entry per selected record.
C7_NotFoundOutcomes ==
    pc = "done" /\ df # <<>> /\ request[1].selected_date \in ParseableDateStrings =>
        /\ (response[1].status = 404 /\ response[1].detail = NoDataDetail)
              <=> ScopeRows = {}
        /\ (response[1].status = 404 /\ response[1].detail = NoneSelectedDetail)
              <=> (ScopeRows # {} /\ ScopeSelectedRows = {})
        /\ response[1].status \in {200, 404}
        /\ response[1].status = 200 =>
              /\ response[1].body # <<>>
              /\ Len(response[1].body) = Cardinality(ScopeSelectedRows)
        /\ response[1].status = 404 =>
              /\ response[1].body = <<>>
              /\ response[1].detail \in {NoDataDetail, NoneSelectedDetail}

\* records match the date and depot, the selected id is in the dataset
\* under another depot only, and the request names vehicles
C7_Witness ==
    /\ pc = "done"
    /\ df # <<>>
    /\ request[1].selected_date \in ParseableDateStrings
    /\ ScopeRows # {}
    /\ ScopeSelectedRows = {}
    /\ request[1].selected_request_ids = <<"REQ1">>
    /\ \E k \in 1..Len(df[1]) : df[1][k].Request_id = "REQ1"
    /\ request[1].lcv_stage_assignments # <<>>
    /\ response[1].status = 404

\* a success whose dataset also holds a record out of the request's scope
C7_WitnessSuccess ==
    /\ pc = "done"
    /\ df # <<>>
    /\ response[1].status = 200
    /\ Len(response[1].body) = 1
    /\ Len(df[1]) = 2
    /\ request[1].lcv_stage_assignments = <<>>

\* C8: a request served without a dataset ends in 500 whatever it holds;
\* with a dataset and an unparseable date it ends in 400; in both cases
\* nothing was filtered or allocated.  A served request has one response,
\* and the handler filtered and allocated at most once for it.
C8_ValidationOrder ==
    /\ pc = "idle" => response = <<>> /\ log = <<>>
    /\ pc = "done" =>
          /\ Len(response) = 1
          /\ response[1].status \in {200, 400, 404, 500}
          /\ df = <<>> => response[1].status = 500 /\ log = <<>> /\ calls = 0
          /\ (df # <<>> /\ request[1].selected_date \notin ParseableDateStrings)
                => response[1].status = 400 /\ log = <<>> /\ calls = 0
          /\ response[1].status \in {400, 500} => response[1].body = <<>>
          /\ log \in {<<>>, <<"filter">>, <<"filter", "allocate">>}
          /\ calls <= 1

\* no dataset and an unparseable date: the 500 comes first
C8_Witness ==
    /\ pc = "done"
    /\ df = <<>>
    /\ request[1].selected_date \notin ParseableDateStrings
    /\ response[1].status = 500

\* a dataset with records and an unparseable date
C8_WitnessInvalidDate ==
    /\ pc = "done"
    /\ df # <<>>
    /\ Len(df[1]) = 2
    /\ request[1].selected_date \notin ParseableDateStrings
    /\ response[1].status = 400
====
